---- MODULE Spec2Model ----
(***************************************************************************)
(* Model of mongo::parsed_aggregation_projection::ProjectionNode           *)
(* (src/mongo/db/pipeline/parsed_aggregation_projection_node.cpp).         *)
(*                                                                         *)
(* A tree of ProjectionNodes is built by addProjectionForPath and          *)
(* addExpressionForPath, may be optimized, and is applied to documents.    *)
(* The Document/Value types, the Expression interface and the hooks of the *)
(* Inclusion/Exclusion subclasses live outside this file; they are         *)
(* modelled from their contracts.                                          *)
(***************************************************************************)
EXTENDS Integers, Sequences, FiniteSets, TLC

VARIABLES root, aborted, calls, addedPaths, call

vars == <<root, aborted, calls, addedPaths, call>>

(***************************************************************************)
(* Bounds and input sets                                                   *)
(***************************************************************************)
\* Number of addProjectionForPath / addExpressionForPath calls in one run.
MaxCalls == 3

\* Field paths, as the sequence of their dot-separated components.
ProjectionPaths == {<<"_id">>, <<"a">>, <<"b">>, <<"a", "b">>}

ExpressionPaths == {<<"a">>, <<"c">>, <<"a", "c">>, <<"a", "b", "c">>}

\* Every iteration order an unordered container of names may have.
IterationOrders ==
    {<<"_id", "a", "b", "c">>, <<"c", "b", "a", "_id">>}

(***************************************************************************)
(* Value and Document                                                      *)
(***************************************************************************)
Missing == [t |-> "missing", s |-> 0, f |-> <<>>]

Scalar(i) == [t |-> "scalar", s |-> i, f |-> <<>>]

Bool(b) == [t |-> "Bool", s |-> IF b THEN 1 ELSE 0, f |-> <<>>]

\* A nested document: f is the sequence of its field slots [n, v].
Object(fields) == [t |-> "Object", s |-> 0, f |-> fields]

\* An array: f is the sequence of its elements.
Array(values) == [t |-> "Array", s |-> 0, f |-> values]

Slot(name, val) == [n |-> name, v |-> val]

NoMetaData == 0

\* A Document: its field slots in storage order, and its metadata.
Document(fields, meta) == [fields |-> fields, meta |-> meta]

getDocument(value) == Document(value.f, NoMetaData)

freezeToValue(doc) == Object(doc.fields)

\* Position of the slot called name, 0 when there is none.
findField(fields, name) ==
    IF \E i \in 1..Len(fields) : fields[i].n = name
    THEN CHOOSE i \in 1..Len(fields) : fields[i].n = name
    ELSE 0

\* Document::operator[] : the value of the field, missing when absent.
getField(doc, name) ==
    LET pos == findField(doc.fields, name)
    IN IF pos = 0 THEN Missing ELSE doc.fields[pos].v

\* MutableDocument::setField : overwrite the slot in place, or append one.
setField(doc, name, val) ==
    LET pos == findField(doc.fields, name)
    IN IF pos = 0
       THEN [doc EXCEPT !.fields = Append(@, Slot(name, val))]
       ELSE [doc EXCEPT !.fields[pos].v = val]

\* Document::fieldIterator : the slots holding a value, in storage order.
fieldIterator(doc) == SelectSeq(doc.fields, LAMBDA slot : slot.v # Missing)

copyMetaDataFrom(doc, source) == [doc EXCEPT !.meta = source.meta]

(***************************************************************************)
(* Expression                                                              *)
(***************************************************************************)
\* {$add: [c]} folds to the constant c; {$fieldPath: i} reads the field
\* FieldNames[i] of the document it is evaluated against.
FieldNames == <<"_id", "a", "b", "c">>

Add(c) == [op |-> "$add", c |-> c]

Const(c) == [op |-> "$const", c |-> c]

FieldPathExpr(i) == [op |-> "$fieldPath", c |-> i]

Expressions == {Add(7), FieldPathExpr(3)}

evaluate(expr, rootDoc) ==
    IF expr.op = "$fieldPath"
    THEN getField(rootDoc, FieldNames[expr.c])
    ELSE Scalar(expr.c)

exprOptimize(expr) ==
    IF expr.op = "$add" THEN Const(expr.c) ELSE expr

exprSerialize(expr, explain) == Object(<<Slot(expr.op, Scalar(expr.c))>>)

(***************************************************************************)
(* Hooks of the InclusionNode / ExclusionNode subclasses                   *)
(***************************************************************************)
Kinds == {"Inclusion", "Exclusion"}

initializeOutputDocument(node, inputDoc) ==
    IF node.kind = "Inclusion" THEN Document(<<>>, NoMetaData) ELSE inputDoc

applyLeafProjectionToValue(node, value) ==
    IF node.kind = "Inclusion" THEN value ELSE Missing

transformSkippedValueForOutput(node, value) ==
    IF node.kind = "Inclusion" THEN Missing ELSE value

\* FieldPath::getFullyQualifiedPath(prefix, suffix): prefix + "." + suffix.
getFullyQualifiedPath(prefix, suffix) == prefix \o <<suffix>>

(***************************************************************************)
(* ProjectionNode: construction                                            *)
(***************************************************************************)
PolicySets ==
    [arrayRecursionPolicy : {"kRecurseNestedArrays", "kDoNotRecurseNestedArrays"},
     computedFieldsPolicy : {"kAllowComputedFields", "kBanComputedFields"}]

ProjectionNode(kind, policies, pathToNode) ==
    [kind |-> kind,
     _policies |-> policies,
     _pathToNode |-> pathToNode,
     _projectedFields |-> {},
     _expressions |-> <<>>,
     _children |-> <<>>,
     _orderToProcessAdditionsAndChildren |-> <<>>]

makeChild(node, field) ==
    ProjectionNode(node.kind, node._policies,
                   getFullyQualifiedPath(node._pathToNode, field))

\* Field names are path components, so they never contain a '.'.
addChild(node, field) ==
    [node EXCEPT
        !._orderToProcessAdditionsAndChildren = Append(@, field),
        !._children = IF field \in DOMAIN @ THEN @
                      ELSE @ @@ (field :> makeChild(node, field))]

\* The node after the call; the child is then node._children[field].
addOrGetChild(node, field) ==
    IF field \in DOMAIN node._children THEN node ELSE addChild(node, field)

RECURSIVE addProjectionForPath(_, _)
addProjectionForPath(node, path) ==
    IF Len(path) = 1
    THEN [node EXCEPT !._projectedFields = @ \cup {path[1]}]
    ELSE LET field == path[1]
             withChild == addOrGetChild(node, field)
         IN [withChild EXCEPT
                !._children[field] = addProjectionForPath(@, Tail(path))]

\* Mutation: the policy is checked only at the node that stores the
\* expression, after the children on the way have been created.
RECURSIVE addExpressionForPath_checksAtLeaf(_, _, _)
addExpressionForPath_checksAtLeaf(node, path, expr) ==
    IF Len(path) = 1
    THEN IF node._policies.computedFieldsPolicy # "kAllowComputedFields"
         THEN [ok |-> FALSE, node |-> node]
         ELSE LET fieldName == path[1]
              IN [ok |-> TRUE,
                  node |-> [node EXCEPT
                      !._expressions =
                          IF fieldName \in DOMAIN @
                          THEN [@ EXCEPT ![fieldName] = expr]
                          ELSE @ @@ (fieldName :> expr),
                      !._orderToProcessAdditionsAndChildren =
                          Append(@, fieldName)]]
    ELSE LET field == path[1]
             withChild == addOrGetChild(node, field)
             sub == addExpressionForPath_checksAtLeaf(
                        withChild._children[field], Tail(path), expr)
         IN [ok |-> sub.ok,
             node |-> [withChild EXCEPT !._children[field] = sub.node]]

\* The node after the call, and whether every invariant() on the way held.
\* A failed invariant aborts at once: nothing after it is executed.
RECURSIVE addExpressionForPath(_, _, _)
addExpressionForPath(node, path, expr) ==
    IF node._policies.computedFieldsPolicy # "kAllowComputedFields"
    THEN [ok |-> FALSE, node |-> node]
    ELSE IF Len(path) = 1
    THEN LET fieldName == path[1]
         IN [ok |-> TRUE,
             node |-> [node EXCEPT
                 !._expressions =
                     IF fieldName \in DOMAIN @
                     THEN [@ EXCEPT ![fieldName] = expr]
                     ELSE @ @@ (fieldName :> expr),
                 !._orderToProcessAdditionsAndChildren = Append(@, fieldName)]]
    ELSE LET field == path[1]
             withChild == addOrGetChild(node, field)
             sub == addExpressionForPath(withChild._children[field],
                                         Tail(path), expr)
         IN [ok |-> sub.ok,
             node |-> [withChild EXCEPT !._children[field] = sub.node]]

RECURSIVE getExpressionForPath(_, _)
getExpressionForPath(node, path) ==
    IF Len(path) = 1
    THEN IF path[1] \in DOMAIN node._expressions
         THEN <<node._expressions[path[1]]>>
         ELSE <<>>
    ELSE IF path[1] \in DOMAIN node._children
    THEN getExpressionForPath(node._children[path[1]], Tail(path))
    ELSE <<>>

(***************************************************************************)
(* ProjectionNode: applying the tree to a document                         *)
(***************************************************************************)
\* Mutation: the projected value is never written to the output.
outputProjectedField_dropped(field, val, doc) == doc

outputProjectedField(field, val, doc) == setField(doc, field, val)

\* The names of a set in the order the container iterates over them.
iterate(names, order) == SelectSeq(order, LAMBDA name : name \in names)

RECURSIVE applyProjections(_, _, _, _)
RECURSIVE applyProjectionsToValue(_, _, _)

\* Mutation: the membership test on _projectedFields is lost, every field of
\* the input is treated as a projected leaf.
applyProjections_everyField(node, inputDoc, outputDoc, order) ==
    LET it == fieldIterator(inputDoc)
        RECURSIVE walk(_, _)
        walk(i, out) ==
            IF i > Len(it) THEN out
            ELSE walk(i + 1, outputProjectedField(it[i].n,
                     applyLeafProjectionToValue(node, it[i].v), out))
    IN walk(1, outputDoc)

\* order: the iteration order of _projectedFields, an unordered container.
applyProjections(node, inputDoc, outputDoc, order) ==
    LET it == fieldIterator(inputDoc)
        RECURSIVE walk(_, _)
        walk(i, out) ==
            IF i > Len(it) THEN out
            ELSE LET fieldName == it[i].n
                     value == it[i].v
                 IN IF fieldName \in node._projectedFields
                    THEN walk(i + 1, outputProjectedField(fieldName,
                             applyLeafProjectionToValue(node, value), out))
                    ELSE IF fieldName \in DOMAIN node._children
                    THEN walk(i + 1, outputProjectedField(fieldName,
                             applyProjectionsToValue(node._children[fieldName],
                                                     value, order), out))
                    ELSE walk(i + 1, out)
        projected == iterate(node._projectedFields, order)
        RECURSIVE absent(_, _)
        absent(i, out) ==
            IF i > Len(projected) THEN out
            ELSE IF getField(inputDoc, projected[i]) = Missing
            THEN absent(i + 1, outputProjectedField(projected[i], Missing, out))
            ELSE absent(i + 1, out)
    IN IF applyLeafProjectionToValue(node, Bool(TRUE)) = Missing
       THEN absent(1, walk(1, outputDoc))
       ELSE walk(1, outputDoc)

\* Mutation: the array recursion policy is not consulted, nested arrays are
\* always descended into.
applyProjectionsToValue_alwaysRecurse(node, inputValue, order) ==
    IF inputValue.t = "Object"
    THEN freezeToValue(
             applyProjections(node, getDocument(inputValue),
                 initializeOutputDocument(node, getDocument(inputValue)), order))
    ELSE IF inputValue.t = "Array"
    THEN Array([i \in 1..Len(inputValue.f) |->
             applyProjectionsToValue(node, inputValue.f[i], order)])
    ELSE transformSkippedValueForOutput(node, inputValue)

applyProjectionsToValue(node, inputValue, order) ==
    IF inputValue.t = "Object"
    THEN freezeToValue(
             applyProjections(node, getDocument(inputValue),
                 initializeOutputDocument(node, getDocument(inputValue)), order))
    ELSE IF inputValue.t = "Array"
    THEN Array([i \in 1..Len(inputValue.f) |->
             LET value == inputValue.f[i]
                 shouldSkip ==
                     /\ value.t = "Array"
                     /\ node._policies.arrayRecursionPolicy
                            = "kDoNotRecurseNestedArrays"
             IN IF shouldSkip
                THEN transformSkippedValueForOutput(node, value)
                ELSE applyProjectionsToValue(node, value, order)])
    ELSE transformSkippedValueForOutput(node, inputValue)

\* Mutation: only the node's own expressions are looked at.
subtreeContainsComputedFields_ownOnly(node) == DOMAIN node._expressions # {}

RECURSIVE subtreeContainsComputedFields(_)
subtreeContainsComputedFields(node) ==
    \/ DOMAIN node._expressions # {}
    \/ \E field \in DOMAIN node._children :
           subtreeContainsComputedFields(node._children[field])

RECURSIVE applyExpressions(_, _, _)
RECURSIVE applyExpressionsToValue(_, _, _)

\* Mutation: the order list is walked from its end.
applyExpressions_reversed(node, rootDoc, outputDoc) ==
    LET order == node._orderToProcessAdditionsAndChildren
        RECURSIVE walk(_, _)
        walk(i, out) ==
            IF i < 1 THEN out
            ELSE LET field == order[i]
                 IN IF field \in DOMAIN node._children
                    THEN walk(i - 1, setField(out, field,
                             applyExpressionsToValue(node._children[field],
                                 rootDoc, getField(out, field))))
                    ELSE IF field \in DOMAIN node._expressions
                    THEN walk(i - 1, setField(out, field,
                             evaluate(node._expressions[field], rootDoc)))
                    ELSE out
    IN walk(Len(order), outputDoc)

\* A name of the order list that is neither a child nor an expression fails
\* the invariant() of the lookup; lookupsSucceed tells whether that happens.
applyExpressions(node, rootDoc, outputDoc) ==
    LET order == node._orderToProcessAdditionsAndChildren
        RECURSIVE walk(_, _)
        walk(i, out) ==
            IF i > Len(order) THEN out
            ELSE LET field == order[i]
                 IN IF field \in DOMAIN node._children
                    THEN walk(i + 1, setField(out, field,
                             applyExpressionsToValue(node._children[field],
                                 rootDoc, getField(out, field))))
                    ELSE IF field \in DOMAIN node._expressions
                    THEN walk(i + 1, setField(out, field,
                             evaluate(node._expressions[field], rootDoc)))
                    ELSE out
    IN walk(1, outputDoc)

\* Mutation: the expressions of a nested document are evaluated against that
\* document instead of the root.
applyExpressionsToValue_subDocumentAsRoot(node, rootDoc, inputValue) ==
    IF inputValue.t = "Object"
    THEN freezeToValue(applyExpressions(node, getDocument(inputValue),
                                        getDocument(inputValue)))
    ELSE IF inputValue.t = "Array"
    THEN Array([i \in 1..Len(inputValue.f) |->
             applyExpressionsToValue(node, rootDoc, inputValue.f[i])])
    ELSE IF subtreeContainsComputedFields(node)
    THEN freezeToValue(
             applyExpressions(node, rootDoc, Document(<<>>, NoMetaData)))
    ELSE transformSkippedValueForOutput(node, inputValue)

applyExpressionsToValue(node, rootDoc, inputValue) ==
    IF inputValue.t = "Object"
    THEN freezeToValue(applyExpressions(node, rootDoc, getDocument(inputValue)))
    ELSE IF inputValue.t = "Array"
    THEN Array([i \in 1..Len(inputValue.f) |->
             applyExpressionsToValue(node, rootDoc, inputValue.f[i])])
    ELSE IF subtreeContainsComputedFields(node)
    THEN freezeToValue(
             applyExpressions(node, rootDoc, Document(<<>>, NoMetaData)))
    ELSE transformSkippedValueForOutput(node, inputValue)

RECURSIVE lookupsSucceed(_)
lookupsSucceed(node) ==
    /\ \A i \in 1..Len(node._orderToProcessAdditionsAndChildren) :
           LET field == node._orderToProcessAdditionsAndChildren[i]
           IN field \in DOMAIN node._children \cup DOMAIN node._expressions
    /\ \A field \in DOMAIN node._children :
           lookupsSucceed(node._children[field])

\* The output document before the expressions are applied.
projectionsOf(node, inputDoc, order) ==
    applyProjections(node, inputDoc,
                     initializeOutputDocument(node, inputDoc), order)

\* Mutation: the metadata of the input is not copied.
applyToDocument_withoutMetaData(node, inputDoc, order) ==
    applyExpressions(node, inputDoc, projectionsOf(node, inputDoc, order))

applyToDocument(node, inputDoc, order) ==
    copyMetaDataFrom(
        applyExpressions(node, inputDoc, projectionsOf(node, inputDoc, order)),
        inputDoc)

(***************************************************************************)
(* ProjectionNode: analysis, optimize, serialize                           *)
(***************************************************************************)
RECURSIVE reportProjectedPaths(_, _)

\* Mutation: the field name is reported without the path to its node.
reportProjectedPaths_unqualified(node, projectedPaths) ==
    projectedPaths
    \cup {<<projectedField>> : projectedField \in node._projectedFields}
    \cup UNION {reportProjectedPaths(node._children[field], {}) :
                    field \in DOMAIN node._children}

reportProjectedPaths(node, projectedPaths) ==
    projectedPaths
    \cup {getFullyQualifiedPath(node._pathToNode, projectedField) :
              projectedField \in node._projectedFields}
    \cup UNION {reportProjectedPaths(node._children[field], {}) :
                    field \in DOMAIN node._children}

RECURSIVE optimize(_)

\* Mutation: each optimized expression is registered again, which appends its
\* name to the order list once more.
optimize_registersAgain(node) ==
    [node EXCEPT
        !._expressions = [field \in DOMAIN @ |-> exprOptimize(@[field])],
        !._orderToProcessAdditionsAndChildren =
            @ \o iterate(DOMAIN node._expressions, FieldNames),
        !._children = [field \in DOMAIN @ |-> optimize(@[field])]]

\* Mutation: the children are not visited.
optimize_ownExpressionsOnly(node) ==
    [node EXCEPT
        !._expressions = [field \in DOMAIN @ |-> exprOptimize(@[field])]]

\* Mutation: an expression that folds to a constant is erased from the
\* expressions, its name staying in the order list.
optimize_erasesConstants(node) ==
    [node EXCEPT
        !._expressions =
            [field \in {f \in DOMAIN @ : exprOptimize(@[f]).op # "$const"}
                 |-> exprOptimize(@[field])],
        !._children = [field \in DOMAIN @ |-> optimize(@[field])]]

optimize(node) ==
    [node EXCEPT
        !._expressions = [field \in DOMAIN @ |-> exprOptimize(@[field])],
        !._children = [field \in DOMAIN @ |-> optimize(@[field])]]

addField(doc, name, val) == [doc EXCEPT !.fields = Append(@, Slot(name, val))]

\* order: the iteration order of _projectedFields, an unordered container.
RECURSIVE serialize(_, _, _, _)
\* Mutation: the plain fields are always given the boolean true.
serialize_alwaysTrue(node, explain, output, order) ==
    LET projVal == TRUE
        withId == IF "_id" \in node._projectedFields
                  THEN addField(output, "_id", Bool(projVal))
                  ELSE output
        projected == iterate(node._projectedFields, order)
        RECURSIVE plain(_, _)
        plain(i, out) ==
            IF i > Len(projected) THEN out
            ELSE IF projected[i] # "_id"
            THEN plain(i + 1, addField(out, projected[i], Bool(projVal)))
            ELSE plain(i + 1, out)
        declared == node._orderToProcessAdditionsAndChildren
        RECURSIVE walk(_, _)
        walk(i, out) ==
            IF i > Len(declared) THEN out
            ELSE LET field == declared[i]
                 IN IF field \in DOMAIN node._children
                    THEN walk(i + 1, addField(out, field,
                             freezeToValue(serialize(node._children[field],
                                 explain, Document(<<>>, NoMetaData), order))))
                    ELSE IF field \in DOMAIN node._expressions
                    THEN walk(i + 1, addField(out, field,
                             exprSerialize(node._expressions[field], explain)))
                    ELSE out
    IN walk(1, plain(1, withId))

\* Mutation: "_id" is not put first, it is emitted where the iteration over
\* the plain fields meets it.
serialize_idInPlace(node, explain, output, order) ==
    LET projVal == applyLeafProjectionToValue(node, Bool(TRUE)) # Missing
        withId == output
        projected == iterate(node._projectedFields, order)
        RECURSIVE plain(_, _)
        plain(i, out) ==
            IF i > Len(projected) THEN out
            ELSE plain(i + 1, addField(out, projected[i], Bool(projVal)))
        declared == node._orderToProcessAdditionsAndChildren
        RECURSIVE walk(_, _)
        walk(i, out) ==
            IF i > Len(declared) THEN out
            ELSE LET field == declared[i]
                 IN IF field \in DOMAIN node._children
                    THEN walk(i + 1, addField(out, field,
                             freezeToValue(serialize(node._children[field],
                                 explain, Document(<<>>, NoMetaData), order))))
                    ELSE IF field \in DOMAIN node._expressions
                    THEN walk(i + 1, addField(out, field,
                             exprSerialize(node._expressions[field], explain)))
                    ELSE out
    IN walk(1, plain(1, withId))

serialize(node, explain, output, order) ==
    LET projVal == applyLeafProjectionToValue(node, Bool(TRUE)) # Missing
        withId == IF "_id" \in node._projectedFields
                  THEN addField(output, "_id", Bool(projVal))
                  ELSE output
        projected == iterate(node._projectedFields, order)
        RECURSIVE plain(_, _)
        plain(i, out) ==
            IF i > Len(projected) THEN out
            ELSE IF projected[i] # "_id"
            THEN plain(i + 1, addField(out, projected[i], Bool(projVal)))
            ELSE plain(i + 1, out)
        declared == node._orderToProcessAdditionsAndChildren
        RECURSIVE walk(_, _)
        walk(i, out) ==
            IF i > Len(declared) THEN out
            ELSE LET field == declared[i]
                 IN IF field \in DOMAIN node._children
                    THEN walk(i + 1, addField(out, field,
                             freezeToValue(serialize(node._children[field],
                                 explain, Document(<<>>, NoMetaData), order))))
                    ELSE IF field \in DOMAIN node._expressions
                    THEN walk(i + 1, addField(out, field,
                             exprSerialize(node._expressions[field], explain)))
                    ELSE out
    IN walk(1, plain(1, withId))

(***************************************************************************)
(* Input documents                                                         *)
(***************************************************************************)
InnerDoc == Object(<<Slot("b", Scalar(1)), Slot("d", Scalar(2))>>)

InputDocuments ==
    {Document(<<>>, 0),
     Document(<<Slot("a", Scalar(5))>>, 1),
     Document(<<Slot("b", Scalar(1)), Slot("_id", Scalar(2)),
                Slot("d", Scalar(3))>>, 1),
     Document(<<Slot("_id", Scalar(1)),
                Slot("a", Object(<<Slot("c", Scalar(2)), Slot("b", Scalar(1)),
                                   Slot("d", Scalar(3))>>)),
                Slot("b", Scalar(4))>>, 0),
     Document(<<Slot("a", Array(<<InnerDoc, Scalar(6),
                                  Array(<<InnerDoc>>)>>)),
                Slot("b", Scalar(9))>>, 1),
     Document(<<Slot("d", Scalar(1)), Slot("c", Scalar(2)),
                Slot("a", Object(<<Slot("c", Scalar(1)),
                                   Slot("b", InnerDoc)>>))>>, 0)}

(***************************************************************************)
(* The state machine                                                       *)
(***************************************************************************)
RootPaths == {<<>>, <<"r">>}

\* call holds the operation that has just run together with what it returned,
\* until the caller takes the result (Return).
NoCall == [op |-> "none"]

Init ==
    /\ root \in {ProjectionNode(kind, policies, path) :
                     kind \in Kinds, policies \in PolicySets, path \in RootPaths}
    /\ aborted = FALSE
    /\ calls = 0
    /\ addedPaths = {}
    /\ call = NoCall

Idle == ~aborted /\ call = NoCall

AddProjectionForPath(path) ==
    /\ Idle
    /\ calls < MaxCalls
    /\ root' = addProjectionForPath(root, path)
    /\ addedPaths' = addedPaths \cup {path}
    /\ calls' = calls + 1
    /\ UNCHANGED <<aborted, call>>

AddExpressionForPath(path, expr) ==
    /\ Idle
    /\ calls < MaxCalls
    /\ LET result == addExpressionForPath(root, path, expr)
       IN /\ root' = result.node
          /\ aborted' = ~result.ok
    /\ calls' = calls + 1
    /\ UNCHANGED <<addedPaths, call>>

Optimize ==
    /\ Idle
    /\ root' = optimize(root)
    /\ call' = [op |-> "optimize", before |-> root]
    /\ UNCHANGED <<aborted, calls, addedPaths>>

ApplyToDocument(inputDoc, order) ==
    /\ Idle
    /\ IF lookupsSucceed(root)
       THEN /\ call' = [op |-> "applyToDocument",
                        inputDoc |-> inputDoc,
                        projected |-> projectionsOf(root, inputDoc, order),
                        outputDoc |-> applyToDocument(root, inputDoc, order)]
            /\ UNCHANGED aborted
       ELSE /\ aborted' = TRUE
            /\ UNCHANGED call
    /\ UNCHANGED <<root, calls, addedPaths>>

ReportProjectedPaths(projectedPaths) ==
    /\ Idle
    /\ call' = [op |-> "reportProjectedPaths",
                before |-> projectedPaths,
                projectedPaths |-> reportProjectedPaths(root, projectedPaths)]
    /\ UNCHANGED <<root, aborted, calls, addedPaths>>

Serialize(explain, order) ==
    /\ Idle
    /\ IF lookupsSucceed(root)
       THEN /\ call' = [op |-> "serialize",
                        explain |-> explain,
                        output |-> serialize(root, explain,
                                      Document(<<>>, NoMetaData), order)]
            /\ UNCHANGED aborted
       ELSE /\ aborted' = TRUE
            /\ UNCHANGED call
    /\ UNCHANGED <<root, calls, addedPaths>>

Return ==
    /\ ~aborted
    /\ call # NoCall
    /\ call' = NoCall
    /\ UNCHANGED <<root, aborted, calls, addedPaths>>

Next ==
    \/ \E path \in ProjectionPaths : AddProjectionForPath(path)
    \/ \E path \in ExpressionPaths, expr \in Expressions :
           AddExpressionForPath(path, expr)
    \/ Optimize
    \/ \E inputDoc \in InputDocuments, order \in IterationOrders :
           ApplyToDocument(inputDoc, order)
    \/ \E projectedPaths \in {{}, {<<"z">>}} :
           ReportProjectedPaths(projectedPaths)
    \/ \E explain \in BOOLEAN, order \in IterationOrders :
           Serialize(explain, order)
    \/ Return

Spec == Init /\ [][Next]_vars

(***************************************************************************)
(* Properties                                                              *)
(***************************************************************************)
\* The names of the fields a document shows, and their names in order.
fieldNames(doc) == {fieldIterator(doc)[i].n : i \in 1..Len(fieldIterator(doc))}

fieldOrder(doc) ==
    [i \in 1..Len(fieldIterator(doc)) |-> fieldIterator(doc)[i].n]

Applied == call.op = "applyToDocument"

\* The root has plain fields and expressions only.
InclusionLeavesOnly ==
    /\ Applied
    /\ root.kind = "Inclusion"
    /\ DOMAIN root._children = {}

\* C1 as stated: the output of an Inclusion tree with plain fields F and
\* top-level expressions E has exactly the fields of the input that are in F
\* together with E; the former keep the input's value, the latter hold the
\* expression's result.
C1_AsStated ==
    InclusionLeavesOnly =>
        LET F == root._projectedFields
            E == DOMAIN root._expressions
            D == call.inputDoc
            out == call.outputDoc
        IN /\ fieldNames(out) = (fieldNames(D) \cap F) \cup E
           /\ \A name \in fieldNames(D) \cap F :
                  getField(out, name) = getField(D, name)
           /\ \A name \in E :
                  getField(out, name) = evaluate(root._expressions[name], D)

\* C1 amended: the output has exactly the fields of the input that are in F
\* and not in E, with the input's value, together with the names of E whose
\* expression does not evaluate to missing, with the expression's result; a
\* name of E whose expression evaluates to missing is absent from the output.
C1_InclusionOutput ==
    InclusionLeavesOnly =>
        LET F == root._projectedFields
            E == DOMAIN root._expressions
            D == call.inputDoc
            out == call.outputDoc
            computed == {name \in E :
                            evaluate(root._expressions[name], D) # Missing}
        IN /\ fieldNames(out) = ((fieldNames(D) \cap F) \ E) \cup computed
           /\ \A name \in (fieldNames(D) \cap F) \ E :
                  getField(out, name) = getField(D, name)
           /\ \A name \in E :
                  getField(out, name) = evaluate(root._expressions[name], D)

\* A plain field kept, an expression computed, a field of the input dropped.
C1_Witness ==
    /\ InclusionLeavesOnly
    /\ (fieldNames(call.inputDoc) \cap root._projectedFields)
           \ DOMAIN root._expressions # {}
    /\ \E name \in DOMAIN root._expressions :
           /\ name \notin fieldNames(call.inputDoc)
           /\ name \in fieldNames(call.outputDoc)
    /\ fieldNames(call.inputDoc)
           \ (root._projectedFields \cup DOMAIN root._expressions) # {}

ExclusionPlainOnly ==
    /\ Applied
    /\ root.kind = "Exclusion"
    /\ DOMAIN root._children = {}
    /\ DOMAIN root._expressions = {}

\* C2: the output of an Exclusion tree with plain fields F and no expressions
\* is the input without the fields named in F: same values, same order,
\* whether or not the fields of F are present in the input.
C2_ExclusionOutput ==
    ExclusionPlainOnly =>
        fieldIterator(call.outputDoc)
            = SelectSeq(fieldIterator(call.inputDoc),
                        LAMBDA slot : slot.n \notin root._projectedFields)

\* One excluded field is in the input, one is not, two fields remain.
C2_Witness ==
    /\ ExclusionPlainOnly
    /\ root._projectedFields \cap fieldNames(call.inputDoc) # {}
    /\ root._projectedFields \ fieldNames(call.inputDoc) # {}
    /\ Len(fieldIterator(call.outputDoc)) >= 2

\* Position of the first occurrence of x in seq.
firstIndex(seq, x) ==
    CHOOSE i \in 1..Len(seq) :
        seq[i] = x /\ \A j \in 1..(i - 1) : seq[j] # x

\* The names in names appear in seq2 in the order they have in seq1.
SameRelativeOrder(names, seq1, seq2) ==
    \A m, n \in names :
        firstIndex(seq1, m) < firstIndex(seq1, n)
            => firstIndex(seq2, m) < firstIndex(seq2, n)

\* The names the order list declares: the expressions and the children.
declaredNames(node) == DOMAIN node._expressions \cup DOMAIN node._children

RECURSIVE HasExpression(_)
HasExpression(node) ==
    \/ DOMAIN node._expressions # {}
    \/ \E name \in DOMAIN node._children : HasExpression(node._children[name])

\* value is a document made of nothing but the results of the expressions of
\* the subtree of node, evaluated against rootDoc.
RECURSIVE BuiltFromExpressions(_, _, _)
BuiltFromExpressions(node, value, rootDoc) ==
    /\ value.t = "Object"
    /\ \A i \in 1..Len(value.f) :
           LET name == value.f[i].n
               val == value.f[i].v
           IN IF name \in DOMAIN node._children
              THEN IF HasExpression(node._children[name])
                   THEN BuiltFromExpressions(node._children[name], val, rootDoc)
                   ELSE val = Missing
              ELSE /\ name \in DOMAIN node._expressions
                   /\ val = evaluate(node._expressions[name], rootDoc)
    /\ \A name \in declaredNames(node) :
           \E i \in 1..Len(value.f) : value.f[i].n = name

\* Wherever the node meets a scalar or a missing value in before, after holds
\* a document built from the expressions of the subtree.
RECURSIVE ScalarsReplaced(_, _, _, _)
ScalarsReplaced(node, before, after, rootDoc) ==
    IF before.t = "Object"
    THEN /\ after.t = "Object"
         /\ \A name \in DOMAIN node._children :
                ScalarsReplaced(node._children[name],
                                getField(getDocument(before), name),
                                getField(getDocument(after), name), rootDoc)
    ELSE IF before.t = "Array"
    THEN /\ after.t = "Array"
         /\ Len(after.f) = Len(before.f)
         /\ \A i \in 1..Len(before.f) :
                ScalarsReplaced(node, before.f[i], after.f[i], rootDoc)
    ELSE HasExpression(node)
             => BuiltFromExpressions(node, after, rootDoc)

\* C4: a child whose subtree contains an expression and that meets a scalar
\* or a missing value at its slot leaves there a new document built only from
\* the expressions of the subtree, in both modes.
C4_ComputedMaterialization ==
    Applied =>
        \A name \in DOMAIN root._children :
            ScalarsReplaced(root._children[name],
                            getField(call.projected, name),
                            getField(call.outputDoc, name), call.inputDoc)

\* Exclusion: a scalar of the input stands where a child has an expression
\* only in a descendant; the output holds a document there.
C4_Witness ==
    /\ Applied
    /\ root.kind = "Exclusion"
    /\ \E name \in DOMAIN root._children :
           /\ DOMAIN root._children[name]._expressions = {}
           /\ HasExpression(root._children[name])
           /\ getField(call.inputDoc, name).t = "scalar"
           /\ getField(call.projected, name).t = "scalar"
           /\ getField(call.outputDoc, name).t = "Object"

\* The overlay of node left in value the result of each expression it
\* applies, evaluated against rootDoc.
RECURSIVE Overlaid(_, _, _)
Overlaid(node, value, rootDoc) ==
    IF value.t = "Object"
    THEN \A name \in declaredNames(node) :
             IF name \in DOMAIN node._children
             THEN Overlaid(node._children[name],
                           getField(getDocument(value), name), rootDoc)
             ELSE getField(getDocument(value), name)
                      = evaluate(node._expressions[name], rootDoc)
    ELSE IF value.t = "Array"
    THEN \A i \in 1..Len(value.f) : Overlaid(node, value.f[i], rootDoc)
    ELSE ~HasExpression(node)

\* C5: every expression the overlay applies, at any depth and for every
\* array element, is evaluated against the input document of applyToDocument,
\* and its result is the value of its field in the output.
C5_EvaluatedAgainstRoot ==
    Applied => Overlaid(root, freezeToValue(call.outputDoc), call.inputDoc)

\* A nested expression whose value differs between the root and the nested
\* document overwrote a field the projection pass had left there.
C5_Witness ==
    /\ Applied
    /\ \E name \in DOMAIN root._children :
           LET child == root._children[name]
               sub == getField(call.projected, name)
           IN /\ sub.t = "Object"
              /\ \E field \in DOMAIN child._expressions \ DOMAIN child._children :
                     /\ getField(getDocument(sub), field) # Missing
                     /\ evaluate(child._expressions[field], call.inputDoc)
                            # evaluate(child._expressions[field],
                                       getDocument(sub))
                     /\ evaluate(child._expressions[field], call.inputDoc)
                            # getField(getDocument(sub), field)

\* out is what one structural projection of node makes of the document in:
\* the plain projected fields are kept (Inclusion) or removed (Exclusion),
\* the fields that are neither projected nor children are dropped (Inclusion)
\* or kept (Exclusion).
ProjectedIndividually(node, in, out) ==
    IF in.t = "Object"
    THEN LET F == node._projectedFields
             inDoc == getDocument(in)
             outDoc == getDocument(out)
             other == fieldNames(inDoc) \ (F \cup DOMAIN node._children)
         IN /\ out.t = "Object"
            /\ IF node.kind = "Inclusion"
               THEN /\ \A name \in F : getField(outDoc, name) = getField(inDoc, name)
                    /\ \A name \in other : name \notin fieldNames(outDoc)
               ELSE /\ \A name \in F : name \notin fieldNames(outDoc)
                    /\ \A name \in other :
                           getField(outDoc, name) = getField(inDoc, name)
    ELSE out = IF node.kind = "Inclusion" THEN Missing ELSE in

\* C6: in the structural projection pass an element of an array that is
\* itself an array is, with nested array recursion disabled, replaced as a
\* whole by the skipped-value transform (unchanged under Exclusion, missing
\* under Inclusion), and with recursion enabled projected element by element;
\* the elements that are not arrays are always projected individually.
C6_NestedArrays ==
    Applied =>
        \A name \in DOMAIN root._children \ root._projectedFields :
            LET child == root._children[name]
                in == getField(call.inputDoc, name)
                out == getField(call.projected, name)
            IN in.t = "Array" =>
                   /\ out.t = "Array"
                   /\ Len(out.f) = Len(in.f)
                   /\ \A i \in 1..Len(in.f) :
                          IF in.f[i].t # "Array"
                          THEN ProjectedIndividually(child, in.f[i], out.f[i])
                          ELSE IF child._policies.arrayRecursionPolicy
                                      = "kDoNotRecurseNestedArrays"
                          THEN out.f[i] = IF child.kind = "Inclusion"
                                          THEN Missing ELSE in.f[i]
                          ELSE /\ out.f[i].t = "Array"
                               /\ Len(out.f[i].f) = Len(in.f[i].f)
                               /\ \A j \in 1..Len(in.f[i].f) :
                                      in.f[i].f[j].t # "Array" =>
                                          ProjectedIndividually(child,
                                              in.f[i].f[j], out.f[i].f[j])

\* Recursion disabled: an array holds a document that loses a field and a
\* nested array holding the same document, which is left as it is.
C6_Witness ==
    /\ Applied
    /\ root.kind = "Exclusion"
    /\ root._policies.arrayRecursionPolicy = "kDoNotRecurseNestedArrays"
    /\ \E name \in DOMAIN root._children \ root._projectedFields :
           LET in == getField(call.inputDoc, name)
               out == getField(call.projected, name)
           IN /\ in.t = "Array"
              /\ \E i, k \in 1..Len(in.f) :
                     /\ in.f[i].t = "Array"
                     /\ out.f[i] = in.f[i]
                     /\ in.f[k] \in {in.f[i].f[j] : j \in 1..Len(in.f[i].f)}
                     /\ in.f[k].t = "Object"
                     /\ out.f[k] # in.f[k]

\* C7: the output document of applyToDocument carries the metadata of the
\* input document, in both modes, whatever the tree holds.
C7_MetaDataCopied ==
    Applied => call.outputDoc.meta = call.inputDoc.meta

\* An Inclusion tree, whose output starts without metadata, with an
\* expression and a projected field, applied to a document with metadata.
C7_Witness ==
    /\ Applied
    /\ root.kind = "Inclusion"
    /\ DOMAIN root._expressions # {}
    /\ root._projectedFields # {}
    /\ call.inputDoc.meta # NoMetaData
    /\ call.outputDoc.meta = call.inputDoc.meta

\* C8: reportProjectedPaths adds to its output exactly the paths given to
\* addProjectionForPath so far, each qualified by the path of the root, and
\* nothing else.
C8_ProjectedPaths ==
    call.op = "reportProjectedPaths" =>
        call.projectedPaths
            = call.before \cup {root._pathToNode \o path : path \in addedPaths}

\* A nested path and a top-level path were added, an expression too, and the
\* root itself is nested.
C8_Witness ==
    /\ call.op = "reportProjectedPaths"
    /\ root._pathToNode # <<>>
    /\ \E path \in addedPaths : Len(path) > 1
    /\ \E path \in addedPaths : Len(path) = 1
    /\ HasExpression(root)
    /\ call.before # {}

Optimized == call.op = "optimize"

\* C9: optimize is idempotent: a second optimize gives a tree with the same
\* serialize() output and the same applyToDocument result on every document
\* as the tree after the first one.
C9_OptimizeIdempotent ==
    Optimized =>
        LET once == root
            twice == optimize(root)
        IN \A order \in IterationOrders :
               /\ \A explain \in BOOLEAN :
                      serialize(twice, explain, Document(<<>>, NoMetaData), order)
                          = serialize(once, explain,
                                      Document(<<>>, NoMetaData), order)
               /\ \A inputDoc \in InputDocuments :
                      applyToDocument(twice, inputDoc, order)
                          = applyToDocument(once, inputDoc, order)

\* optimize rewrote an expression of the root and one of a child.
C9_Witness ==
    /\ Optimized
    /\ \E name \in DOMAIN root._expressions :
           root._expressions[name] # call.before._expressions[name]
    /\ \E name \in DOMAIN root._children :
           root._children[name]._expressions
               # call.before._children[name]._expressions

\* after is before with each expression, at every node, replaced by its
\* optimized form, and nothing else changed.
RECURSIVE OnlyExpressionsOptimized(_, _)
OnlyExpressionsOptimized(before, after) ==
    /\ after.kind = before.kind
    /\ after._policies = before._policies
    /\ after._pathToNode = before._pathToNode
    /\ after._projectedFields = before._projectedFields
    /\ after._orderToProcessAdditionsAndChildren
           = before._orderToProcessAdditionsAndChildren
    /\ DOMAIN after._expressions = DOMAIN before._expressions
    /\ \A name \in DOMAIN before._expressions :
           after._expressions[name] = exprOptimize(before._expressions[name])
    /\ DOMAIN after._children = DOMAIN before._children
    /\ \A name \in DOMAIN before._children :
           OnlyExpressionsOptimized(before._children[name],
                                    after._children[name])

\* C10: optimize changes only the expression stored under each expression
\* name: at every node the projected fields, the names of the children and
\* of the expressions, the order list, the path and the policies are what
\* they were, and every expression of every node has been optimized.
C10_OptimizeFrame ==
    Optimized => OnlyExpressionsOptimized(call.before, root)

\* The tree has a plain field, an expression at the root and an expression
\* two levels down; optimize rewrote the deep one.
C10_Witness ==
    /\ Optimized
    /\ root._projectedFields # {}
    /\ \E name \in DOMAIN call.before._children :
           \E sub \in DOMAIN call.before._children[name]._children :
               \E field \in DOMAIN call.before._children[name]._children[sub]
                                ._expressions :
                   root._children[name]._children[sub]._expressions[field]
                       # call.before._children[name]._children[sub]
                             ._expressions[field]

(***************************************************************************)
(* Concurrent application of a finished tree                               *)
(***************************************************************************)
\* The threads that call applyToDocument on the shared tree, and the
\* documents they pass.  In this specification call maps each thread to its
\* pending call: the tree it was handed, its input, and its output document
\* after the projection pass ("projected") and at return ("returned").
Threads == {"t1", "t2"}

ConcurrentDocuments ==
    {Document(<<Slot("a", Scalar(5))>>, 1),
     Document(<<Slot("_id", Scalar(1)),
                Slot("a", Object(<<Slot("c", Scalar(2)), Slot("b", Scalar(1)),
                                   Slot("d", Scalar(3))>>)),
                Slot("b", Scalar(4))>>, 0)}

ConcurrentInit ==
    /\ root \in {ProjectionNode(kind, policies, <<>>) :
                     kind \in Kinds,
                     policies \in {p \in PolicySets :
                         p.computedFieldsPolicy = "kAllowComputedFields"}}
    /\ aborted = FALSE
    /\ calls = 0
    /\ addedPaths = {}
    /\ call = [t \in Threads |-> NoCall]

\* Construction and optimize come before the tree is handed to any thread.
Unpublished == \A t \in Threads : call[t] = NoCall

BuildProjection(path) ==
    /\ Unpublished
    /\ calls < MaxCalls
    /\ root' = addProjectionForPath(root, path)
    /\ addedPaths' = addedPaths \cup {path}
    /\ calls' = calls + 1
    /\ UNCHANGED <<aborted, call>>

BuildExpression(path, expr) ==
    /\ Unpublished
    /\ calls < MaxCalls
    /\ root' = addExpressionForPath(root, path, expr).node
    /\ calls' = calls + 1
    /\ UNCHANGED <<aborted, addedPaths, call>>

BuildOptimize ==
    /\ Unpublished
    /\ root' = optimize(root)
    /\ UNCHANGED <<aborted, calls, addedPaths, call>>

\* applyToDocument up to the end of the projection pass.
StartApply(t, inputDoc, order) ==
    /\ call[t] = NoCall
    /\ call' = [call EXCEPT ![t] =
           [op |-> "projected", tree |-> root, inputDoc |-> inputDoc,
            outputDoc |-> projectionsOf(root, inputDoc, order)]]
    /\ UNCHANGED <<root, aborted, calls, addedPaths>>

\* Mutation: the expression pass optimizes the expressions of the shared
\* tree in place the first time it uses them.
FinishApply_optimizesInPlace(t) ==
    /\ call[t].op = "projected"
    /\ call' = [call EXCEPT ![t] =
           [@ EXCEPT !.op = "returned",
                     !.outputDoc = copyMetaDataFrom(
                         applyExpressions(root, call[t].inputDoc,
                                          call[t].outputDoc),
                         call[t].inputDoc)]]
    /\ root' = optimize(root)
    /\ UNCHANGED <<aborted, calls, addedPaths>>

\* applyToDocument from the expression pass to its return.
FinishApply(t) ==
    /\ call[t].op = "projected"
    /\ call' = [call EXCEPT ![t] =
           [@ EXCEPT !.op = "returned",
                     !.outputDoc = copyMetaDataFrom(
                         applyExpressions(root, call[t].inputDoc,
                                          call[t].outputDoc),
                         call[t].inputDoc)]]
    /\ UNCHANGED <<root, aborted, calls, addedPaths>>

ConcurrentNext ==
    \/ \E path \in ProjectionPaths : BuildProjection(path)
    \/ \E path \in ExpressionPaths, expr \in Expressions :
           BuildExpression(path, expr)
    \/ BuildOptimize
    \/ \E t \in Threads, inputDoc \in ConcurrentDocuments,
          order \in IterationOrders : StartApply(t, inputDoc, order)
    \/ \E t \in Threads : FinishApply(t)

ConcurrentSpec == ConcurrentInit /\ [][ConcurrentNext]_vars

\* C11: once the tree is built and optimized, concurrent applyToDocument
\* calls never modify it: in every interleaving each call works on the tree
\* it was handed, which is still the shared tree, and returns a document
\* it returns when run alone (for some iteration order of the containers).
C11_ConcurrentApply ==
    \A t \in Threads :
        call[t] # NoCall =>
            /\ call[t].tree = root
            /\ call[t].op = "returned" =>
                   call[t].outputDoc
                       \in {applyToDocument(call[t].tree, call[t].inputDoc,
                                            order) : order \in IterationOrders}

\* Both calls have returned, and the second started before the first was
\* over; the tree holds an expression in a subtree.
C11_Witness ==
    /\ \A t \in Threads : call[t] # NoCall /\ call[t].op = "returned"
    /\ call["t1"].inputDoc # call["t2"].inputDoc
    /\ \E name \in DOMAIN root._children : HasExpression(root._children[name])
    /\ root._projectedFields # {}

Serialized == call.op = "serialize"

\* In the serialization fields of node every plain field carries the boolean
\* of the node's mode, and so does every child's sub-document, the child
\* having the mode of its parent.
RECURSIVE ModeBooleans(_, _)
ModeBooleans(node, fields) ==
    /\ \A i \in 1..Len(fields) :
           fields[i].v.t = "Bool"
               => fields[i].v = Bool(node.kind = "Inclusion")
    /\ \A name \in node._projectedFields :
           \E i \in 1..Len(fields) :
               fields[i].n = name /\ fields[i].v.t = "Bool"
    /\ \A name \in DOMAIN node._children :
           /\ node._children[name].kind = node.kind
           /\ \E i \in 1..Len(fields) :
                  fields[i].n = name /\ fields[i].v.t = "Object"
           /\ \A i \in 1..Len(fields) :
                  (fields[i].n = name /\ fields[i].v.t = "Object")
                      => ModeBooleans(node._children[name], fields[i].v.f)

\* C12: in the output of serialize, at every nesting level, every plain
\* field carries true under an Inclusion node and false under an Exclusion
\* node; the plain fields of one node carry the same boolean, and a child's
\* sub-document uses the child's mode, which is its parent's.
C12_ModeBooleans ==
    Serialized => ModeBooleans(root, call.output.fields)

\* An Exclusion tree with a plain field at the root and one in a child.
C12_Witness ==
    /\ Serialized
    /\ root.kind = "Exclusion"
    /\ root._projectedFields # {}
    /\ \E name \in DOMAIN root._children :
           root._children[name]._projectedFields # {}
    /\ \E i \in 1..Len(call.output.fields) :
           call.output.fields[i].v = Bool(FALSE)

\* fields is: "_id" if it is a plain field of node, the other plain fields in
\* some order, each once, then one field per entry of the order list, a
\* child as the nested serialization of the child, an expression as the
\* expression serializes itself.
RECURSIVE SerializedInOrder(_, _, _)
SerializedInOrder(node, fields, explain) ==
    LET F == node._projectedFields
        nPlain == Cardinality(F)
        declared == node._orderToProcessAdditionsAndChildren
    IN /\ Len(fields) = nPlain + Len(declared)
       /\ {fields[i].n : i \in 1..nPlain} = F
       /\ \A i \in 1..nPlain : fields[i].v.t = "Bool"
       /\ "_id" \in F => fields[1].n = "_id"
       /\ \A i \in 1..Len(declared) :
              LET slot == fields[nPlain + i]
              IN /\ slot.n = declared[i]
                 /\ IF declared[i] \in DOMAIN node._children
                    THEN /\ slot.v.t = "Object"
                         /\ SerializedInOrder(node._children[declared[i]],
                                              slot.v.f, explain)
                    ELSE slot.v = exprSerialize(
                                      node._expressions[declared[i]], explain)

\* C13: serialize emits, for each node, "_id" first when it is a plain field
\* of the node (and no plain "_id" otherwise), then every other plain field
\* once, then the expressions and children in the order of the order list,
\* a child as a nested sub-document and an expression as its own
\* serialization.
C13_SerializeOrder ==
    Serialized => SerializedInOrder(root, call.output.fields, call.explain)

\* "_id" and another plain field, and an expression; the containers iterate
\* with "_id" last.
C13_Witness ==
    /\ Serialized
    /\ "_id" \in root._projectedFields
    /\ Cardinality(root._projectedFields) >= 2
    /\ DOMAIN root._expressions # {}
    /\ call.output.fields[1].n = "_id"
    /\ \E order \in IterationOrders :
           /\ iterate(root._projectedFields, order)[1] # "_id"
           /\ call.output = serialize(root, call.explain,
                                      Document(<<>>, NoMetaData), order)

\* The node of the tree that the path leads to: the one that holds the
\* path's last name.
RECURSIVE nodeReached(_, _)
nodeReached(node, path) ==
    IF Len(path) = 1 THEN node
    ELSE nodeReached(node._children[path[1]], Tail(path))

Last(seq) == seq[Len(seq)]

Banned == root._policies.computedFieldsPolicy = "kBanComputedFields"

\* What a call of addExpressionForPath on the present tree does.
ExpressionCallOutcome(path, expr) ==
    LET result == addExpressionForPath(root, path, expr)
    IN IF Banned
       THEN /\ ~result.ok
            /\ result.node = root
       ELSE /\ result.ok
            /\ getExpressionForPath(result.node, path) = <<expr>>
            /\ LET reached == nodeReached(result.node, path)
               IN /\ reached._expressions[Last(path)] = expr
                  /\ Last(reached._orderToProcessAdditionsAndChildren)
                         = Last(path)

\* C14: on a tree whose policy bans computed fields addExpressionForPath
\* aborts at the node it is called on and leaves the tree as it was (no
\* expression, no child, no entry of the order list); on a tree whose policy
\* allows them the call does not abort and the expression is registered at
\* the node the path leads to.  Nothing else aborts.
C14_FailFast ==
    /\ [](/\ \A path \in ExpressionPaths, expr \in Expressions :
                 ExpressionCallOutcome(path, expr)
          /\ aborted => Banned
          /\ Banned => ~HasExpression(root))
    /\ [][(aborted' /\ ~aborted) => root' = root]_vars

\* The call aborted on a tree that already has a child and a plain field.
C14_Witness ==
    /\ aborted
    /\ Banned
    /\ DOMAIN root._children # {}
    /\ root._projectedFields # {}

\* The children of the root that a dotted path of plain fields descends
\* through and that meet a scalar in the input.
ScalarUnderChild(name) ==
    /\ name \in DOMAIN root._children
    /\ ~HasExpression(root._children[name])
    /\ getField(call.inputDoc, name).t = "scalar"

SkippedValueOutcome(name) ==
    IF root.kind = "Inclusion"
    THEN getField(call.outputDoc, name) = Missing
    ELSE getField(call.outputDoc, name) = getField(call.inputDoc, name)

\* C15: when a node has a child for a field, the subtree of the child has no
\* expression and the input value of the field is a scalar, the field is
\* dropped from the output under Inclusion and kept with its value under
\* Exclusion.
C15_AsStated ==
    Applied =>
        \A name \in DOMAIN root._children :
            ScalarUnderChild(name) => SkippedValueOutcome(name)

\* The property holds of node and of every node below it.
RECURSIVE DisjointNames(_)
DisjointNames(node) ==
    /\ node._projectedFields \cap DOMAIN node._children = {}
    /\ DOMAIN node._expressions \cap DOMAIN node._children = {}
    /\ node._projectedFields \cap DOMAIN node._expressions = {}
    /\ \A name \in DOMAIN node._children :
           DisjointNames(node._children[name])

\* C16: after any sequence of addProjectionForPath and addExpressionForPath
\* calls the plain fields, the expression names and the child names of every
\* node are pairwise disjoint; a name that has a child is not (or no longer)
\* a key of the expressions.
C16_AsStated == DisjointNames(root)

Range(seq) == {seq[i] : i \in 1..Len(seq)}

NoDuplicates(seq) ==
    \A i, j \in 1..Len(seq) : seq[i] = seq[j] => i = j

RECURSIVE DeclaredExactlyOnce(_)
DeclaredExactlyOnce(node) ==
    /\ Range(node._orderToProcessAdditionsAndChildren)
           = DOMAIN node._expressions \cup DOMAIN node._children
    /\ NoDuplicates(node._orderToProcessAdditionsAndChildren)
    /\ \A name \in DOMAIN node._children :
           DeclaredExactlyOnce(node._children[name])

\* C17: after any sequence of addProjectionForPath and addExpressionForPath
\* calls the order list of every node holds exactly the names that are keys
\* of the expressions or of the children, each exactly once, and no name
\* that is only a plain field.
C17_AsStated == DeclaredExactlyOnce(root)

\* Every entry of the order list of node, and of every node below it, names
\* a child or an expression of that node.
RECURSIVE DeclaredNamesKnown(_)
DeclaredNamesKnown(node) ==
    /\ Range(node._orderToProcessAdditionsAndChildren)
           \subseteq DOMAIN node._children \cup DOMAIN node._expressions
    /\ \A name \in DOMAIN node._children :
           DeclaredNamesKnown(node._children[name])

\* C18: after any sequence of addProjectionForPath, addExpressionForPath and
\* optimize calls every name in a node's order list is a key of the node's
\* children or of its expressions, so applyExpressions and serialize never
\* fail their lookup: the only step that aborts is a construction call.
C18_LookupsFound ==
    /\ []DeclaredNamesKnown(root)
    /\ [][(aborted' /\ ~aborted) => calls' = calls + 1]_vars

\* A tree with an optimized expression, a shadowed expression and a child
\* holding an expression has been applied or serialized.
C18_Witness ==
    /\ call.op \in {"applyToDocument", "serialize"}
    /\ \E name \in DOMAIN root._expressions :
           root._expressions[name].op = "$const"
    /\ \E name \in DOMAIN root._children :
           /\ name \in DOMAIN root._expressions
           /\ HasExpression(root._children[name])
    /\ ~NoDuplicates(root._orderToProcessAdditionsAndChildren)

====
